---- MODULE Spec2Model ----
(***************************************************************************)
(* A model of downall (src/src/main.rs): the URL extractor get_urls, the   *)
(* fetcher download_image with its filename resolution, the backon retry   *)
(* wrapper around it, and the orchestrator main that launches one task per *)
(* URL, creates the output directory and collects the outcomes in launch   *)
(* order.                                                                  *)
(*                                                                         *)
(* Strings are sequences of one-character strings, so that the regular     *)
(* expressions and the URL path handling are computed character by         *)
(* character.                                                              *)
(***************************************************************************)
EXTENDS Integers, Sequences, FiniteSets, TLC

VARIABLES
    readable,    \* environment: fs::read_to_string(path) succeeds
    content,     \* environment: the text the input file holds
    delay,       \* args.delay is Some(_)
    server,      \* environment: which responses the fetcher can meet
    pc,          \* position of main
    urls,        \* the Vec<String> returned by get_urls
    tasks,       \* handles: one record per spawned task, in push order
    collected,   \* number of handles consumed by the collection loop
    dirExists,   \* the output directory exists
    disk,        \* the files under the output directory: name -> bytes
    warnings,    \* the warn! lines, in order
    wlog,        \* the fs::write calls made, in order
    doneOrder,   \* the task indices in the order the tasks completed
    exit,        \* what main returned
    firstRun     \* what an earlier run over the same directory left behind

vars == <<readable, content, delay, server, pc, urls, tasks,
          collected, dirExists, disk, warnings, wlog, doneOrder, exit, firstRun>>

(***************************************************************************)
(* Bounds of the model.                                                    *)
(***************************************************************************)
\* most words (candidate URLs) in an input text of the orchestrator
MaxWords == 2
\* most pieces in an input text of the extractor
MaxPieces == 4

(***************************************************************************)
(* Characters and string helpers.                                          *)
(***************************************************************************)
\* Rust's \s restricted to the characters the model's texts use
Whitespace == {" ", "\n"}

\* the class [.!,;\?'\"] of the pattern in get_urls
PunctClass == {".", "!", ",", ";", "?", "'", "\""}

\* s[a..b], empty when b < a
Slice(s, a, b) == IF b < a THEN <<>> ELSE SubSeq(s, a, b)

\* the literal lit occurs in s at position p
LitAt(s, p, lit) ==
    /\ p >= 1
    /\ p + Len(lit) - 1 <= Len(s)
    /\ \A k \in 1..Len(lit) : s[p + k - 1] = lit[k]

RECURSIVE Concat(_)
\* the concatenation of a sequence of strings
Concat(ss) == IF ss = <<>> THEN <<>> ELSE Head(ss) \o Concat(Tail(ss))

RECURSIVE Digits(_)
\* format!("{}", n) of a natural number
Digits(n) ==
    LET d == <<"0", "1", "2", "3", "4", "5", "6", "7", "8", "9">>
    IN  IF n < 10 THEN <<d[n + 1]>> ELSE Digits(n \div 10) \o <<d[(n % 10) + 1]>>

(***************************************************************************)
(* get_urls: regex (https?://\S+[.!,;\?'\"]?)\s, captures_iter, group 1.   *)
(***************************************************************************)
\* position after https?:// matched at s, 0 when it does not match there
\* (s? is greedy: the branch with the s is tried first)
SchemeEnd(t, s) ==
    IF ~LitAt(t, s, <<"h", "t", "t", "p">>) THEN 0
    ELSE IF LitAt(t, s + 4, <<"s", ":", "/", "/">>) THEN s + 8
    ELSE IF LitAt(t, s + 4, <<":", "/", "/">>) THEN s + 7
    ELSE 0

\* The ways the rest of the pattern, \S+[class]?\s, matches from position p:
\* <<n, k>> with n >= 1 characters for \S+, k \in {0,1} characters for the
\* optional class, and a whitespace character right after them.
TailMatches(t, p) ==
    {nk \in (1..Len(t)) \X {0, 1} :
        LET n == nk[1]
            k == nk[2]
        IN  /\ p + n + k <= Len(t)
            /\ \A j \in p..(p + n - 1) : t[j] \notin Whitespace
            /\ k = 1 => t[p + n] \in PunctClass
            /\ t[p + n + k] \in Whitespace}

\* The match the regex engine reports at start s (leftmost-first semantics:
\* \S+ takes the longest run that lets the rest match, and the optional class
\* prefers to take a character), as [from, to, next], or [from |-> 0].
\* from..to is capture group 1; next is where the search resumes.
MatchAt(t, s) ==
    LET p == SchemeEnd(t, s)
        ms == IF p = 0 THEN {} ELSE TailMatches(t, p)
    IN  IF ms = {} THEN [from |-> 0, to |-> 0, next |-> 0]
        ELSE LET n == CHOOSE n \in {m[1] : m \in ms} :
                          \A m \in ms : m[1] <= n
                 k == IF <<n, 1>> \in ms THEN 1 ELSE 0
             IN  [from |-> s, to |-> p + n + k - 1, next |-> p + n + k + 1]

\* the leftmost match of the pattern in t that starts at pos or later: a set
\* with that match, or the empty set
FirstMatch(t, pos) ==
    LET starts == {s \in pos..Len(t) : MatchAt(t, s).from # 0}
    IN  {MatchAt(t, s) : s \in {s \in starts : \A r \in starts : s <= r}}

RECURSIVE CapturesFrom(_, _)
\* captures_iter: the successive non-overlapping leftmost matches from pos
CapturesFrom(t, pos) ==
    IF FirstMatch(t, pos) = {} THEN <<>>
    ELSE CHOOSE c \in {<<m>> \o CapturesFrom(t, m.next) : m \in FirstMatch(t, pos)} :
             TRUE

RECURSIVE Dedup(_)
\* the strings of us without the repetitions of an earlier one
Dedup(us) ==
    IF us = <<>> THEN <<>>
    ELSE LET front == Dedup(Slice(us, 1, Len(us) - 1))
             last == us[Len(us)]
         IN  IF \E k \in DOMAIN front : front[k] = last THEN front
             ELSE Append(front, last)

\* GetUrls collecting into a set-like list: a URL seen before is dropped
GetUrlsDedup(t) ==
    LET ms == CapturesFrom(t, 1)
    IN  Dedup([i \in 1..Len(ms) |-> Slice(t, ms[i].from, ms[i].to)])

\* GetUrls with the pattern ending in (\s|$): the end of the text terminates
\* a URL as a whitespace character does
GetUrlsEndAnchored(t) ==
    LET t2 == t \o <<" ">>
        ms == CapturesFrom(t2, 1)
    IN  [i \in 1..Len(ms) |-> Slice(t2, ms[i].from, ms[i].to)]

\* the Vec<String> get_urls returns for a readable file holding t
GetUrls(t) ==
    LET ms == CapturesFrom(t, 1)
    IN  [i \in 1..Len(ms) |-> Slice(t, ms[i].from, ms[i].to)]

(***************************************************************************)
(* Option<T>, as a record.                                                 *)
(***************************************************************************)
None == [some |-> FALSE, val |-> <<>>]

Some(v) == [some |-> TRUE, val |-> v]

\* Option::unwrap_or
UnwrapOr(o, d) == IF o.some THEN o.val ELSE d

(***************************************************************************)
(* Url::parse and Url::path_segments, for http and https URLs with a       *)
(* non-empty host and neither query nor fragment (the URLs of the model).  *)
(***************************************************************************)
\* Url::path: what follows the authority, "/" when nothing does
UrlPath(u) ==
    LET p == SchemeEnd(u, 1)
        slashes == {j \in p..Len(u) : u[j] = "/"}
    IN  IF slashes = {} THEN <<"/">>
        ELSE Slice(u, CHOOSE j \in slashes : \A r \in slashes : j <= r, Len(u))

RECURSIVE SplitSlash(_)
\* str::split('/'): always at least one piece, which may be empty
SplitSlash(s) ==
    LET slashes == {j \in 1..Len(s) : s[j] = "/"}
    IN  IF slashes = {} THEN <<s>>
        ELSE LET j == CHOOSE j \in slashes : \A r \in slashes : j <= r
             IN  <<Slice(s, 1, j - 1)>> \o SplitSlash(Slice(s, j + 1, Len(s)))

\* Url::path_segments: path.strip_prefix('/').map(|rest| rest.split('/'))
PathSegments(u) ==
    LET path == UrlPath(u)
    IN  IF LitAt(path, 1, <<"/">>)
        THEN Some(SplitSlash(Slice(path, 2, Len(path))))
        ELSE None

\* get_file_name_from_url: url.path_segments().map(|s| s.last()).flatten()
GetFileNameFromUrl(u) ==
    LET segs == PathSegments(u)
    IN  IF segs.some THEN Some(segs.val[Len(segs.val)]) ELSE None

(***************************************************************************)
(* The Content-Disposition header and regex_captures!(filename="(.*?)").   *)
(***************************************************************************)
\* the literal filename=" of the pattern
FilenameLit == <<"f", "i", "l", "e", "n", "a", "m", "e", "=", "\"">>

\* no Content-Disposition header in the response
NoHeader == [present |-> FALSE, text |-> TRUE, val |-> <<>>]

\* a Content-Disposition header whose value is visible ASCII
HeaderText(v) == [present |-> TRUE, text |-> TRUE, val |-> v]

\* a Content-Disposition header whose value HeaderValue::to_str rejects
HeaderOpaque == [present |-> TRUE, text |-> FALSE, val |-> <<>>]

\* capture group 1 of the leftmost match of filename="(.*?)" in h, if any:
\* the lazy .*? stops at the first closing quote (. does not match \n)
FilenameCapture(h) ==
    LET ok(s, q) == /\ LitAt(h, s, FilenameLit)
                    /\ q >= s + Len(FilenameLit)
                    /\ q <= Len(h)
                    /\ h[q] = "\""
                    /\ \A j \in (s + Len(FilenameLit))..(q - 1) : h[j] # "\n"
        starts == {s \in 1..Len(h) : \E q \in 1..Len(h) : ok(s, q)}
    IN  IF starts = {} THEN None
        ELSE LET s == CHOOSE s \in starts : \A r \in starts : s <= r
                 qs == {q \in 1..Len(h) : ok(s, q)}
                 q == CHOOSE q \in qs : \A r \in qs : q <= r
             IN  Some(Slice(h, s + Len(FilenameLit), q - 1))

\* lines 85-93 of download_image: the file name for a 2xx response carrying
\* header hdr (to_str succeeded) to a request for url u
ResolveFileName(hdr, u) ==
    IF hdr.present
    THEN LET c == FilenameCapture(hdr.val)
         IN  IF c.some THEN c ELSE GetFileNameFromUrl(u)
    ELSE GetFileNameFromUrl(u)

(***************************************************************************)
(* download_image: one fetch attempt, given what the network answers.      *)
(***************************************************************************)
\* the Content-Disposition headers a server of the model sends, by label
HeaderOf(l) ==
    CASE l = "none" -> NoHeader
      [] l = "named" -> HeaderText(FilenameLit \o <<"r", "\"">>)
      [] l = "empty" -> HeaderText(FilenameLit \o <<"\"">>)
      [] l = "inline" -> HeaderText(<<"i", "n", "l", "i", "n", "e">>)
      [] l = "opaque" -> HeaderOpaque

Headers == {"none", "named", "empty", "inline", "opaque"}

\* the bodies a server of the model sends
Bodies == {"b1", "b2"}

\* what one call of the fetcher can meet: a failed request (send or the
\* reading of the body fails), a non-2xx status, a 2xx response (its header
\* by label, its body), or a panic inside the task
Responses ==
    {[kind |-> "neterr", hdr |-> "none", body |-> "b1"],
     [kind |-> "status", hdr |-> "none", body |-> "b1"],
     [kind |-> "panic", hdr |-> "none", body |-> "b1"]}
    \cup {[kind |-> "ok", hdr |-> h, body |-> b] : h \in Headers, b \in Bodies}

\* the responses met in the runs of the orchestrator over several URLs
BatchResponses ==
    {r \in Responses : r.kind = "ok" => r.hdr \in {"none", "named"}}

\* the responses a server environment sv gives
ServerResponses(sv) == IF sv = "any" THEN Responses ELSE BatchResponses

\* the answer of a server that refuses a URL
Refusal == [kind |-> "status", hdr |-> "none", body |-> "b1"]

\* the responses of a steady server, one that answers every call for a URL
\* the same way: it refuses, or serves the URL, or the task panics on it
SteadyResponses == {r \in BatchResponses : r.kind # "neterr"}

\* a Result of download_image
Ok(name, data) == [ok |-> TRUE, name |-> name, data |-> data, err |-> "none"]

Err(e) == [ok |-> FALSE, name |-> None, data |-> "none", err |-> e]

\* DownloadImage that takes an unreadable header value as a header without
\* a file name (to_str().ok() in place of to_str()?)
DownloadImageFallsBack(u, r) ==
    IF r.kind = "neterr" THEN Err("request")
    ELSE IF r.kind = "status" THEN Err("status")
    ELSE LET hdr == HeaderOf(r.hdr)
         IN  IF hdr.present /\ ~hdr.text THEN Ok(GetFileNameFromUrl(u), r.body)
             ELSE Ok(ResolveFileName(hdr, u), r.body)

\* download_image(url, referer) against response r (r.kind # "panic")
DownloadImage(u, r) ==
    IF r.kind = "neterr" THEN Err("request")        \* send().await?
    ELSE IF r.kind = "status" THEN Err("status")    \* error_for_status()?
    ELSE LET hdr == HeaderOf(r.hdr)
         IN  IF hdr.present /\ ~hdr.text THEN Err("header")  \* h.to_str()?
             ELSE Ok(ResolveFileName(hdr, u), r.body)

(***************************************************************************)
(* The retry wrapper: download_url.retry(ExponentialBuilder::default()     *)
(* .with_max_times(5)).  backon's Retry calls the operation; on Err it     *)
(* asks the backoff for the next delay, sleeps and calls again, and        *)
(* returns the error when the backoff is exhausted.  max_times bounds the  *)
(* delays the backoff hands out, that is the retries, not the calls.       *)
(***************************************************************************)
\* with_max_times(5)
MaxTimes == 5

\* BackoffNext with the bound compared one too far: one more delay handed out
BackoffNextOffByOne(done) == IF done > MaxTimes THEN None ELSE Some(done + 1)

\* ExponentialBackoff::next with `done` delays handed out so far: None when
\* done >= max_times, else a delay (its length is not modelled)
BackoffNext(done) == IF done >= MaxTimes THEN None ELSE Some(done + 1)

\* the result shown by a handle whose task panicked (a JoinError)
JoinError == Err("panic")

\* the result of a task that has not completed
Pending == Err("pending")

\* no response met yet
NoResponse == [kind |-> "none", hdr |-> "none", body |-> "b1"]

\* tokio::spawn of the retrying fetch of url u: the task runs at once
NewTask(u) ==
    [url |-> u, phase |-> "ready", calls |-> 0, retries |-> 0,
     resp |-> NoResponse, out |-> Pending]

\* task t ends with result out, having met response r in its last call
Complete(t, r, out) ==
    [t EXCEPT !.phase = "done", !.calls = @ + 1, !.resp = r, !.out = out]

\* AttemptStep with a retry condition that gives up on a non-2xx status
AttemptStepGivesUpOnStatus(t, r) ==
    IF r.kind = "panic" THEN Complete(t, r, JoinError)
    ELSE LET res == DownloadImage(t.url, r)
             nxt == BackoffNext(t.retries)
         IN  IF res.ok \/ r.kind = "status" THEN Complete(t, r, res)
             ELSE IF nxt.some
                  THEN [t EXCEPT !.phase = "sleeping", !.calls = @ + 1,
                                 !.retries = nxt.val]
                  ELSE Complete(t, r, res)

\* AttemptStep of a task whose panic is never reported to its handle: the
\* task stops without an outcome
AttemptStepPanicHangs(t, r) ==
    IF r.kind = "panic" THEN [t EXCEPT !.phase = "hung", !.calls = @ + 1, !.resp = r]
    ELSE LET res == DownloadImage(t.url, r)
             nxt == BackoffNext(t.retries)
         IN  IF res.ok THEN Complete(t, r, res)
             ELSE IF nxt.some
                  THEN [t EXCEPT !.phase = "sleeping", !.calls = @ + 1,
                                 !.retries = nxt.val]
                  ELSE Complete(t, r, res)

\* One call of the fetcher by task t, meeting response r, and what the retry
\* wrapper does with its result.
AttemptStep(t, r) ==
    IF r.kind = "panic" THEN Complete(t, r, JoinError)
    ELSE LET res == DownloadImage(t.url, r)
             nxt == BackoffNext(t.retries)
         IN  IF res.ok THEN Complete(t, r, res)
             ELSE IF nxt.some
                  THEN [t EXCEPT !.phase = "sleeping", !.calls = @ + 1,
                                 !.retries = nxt.val]
                  ELSE Complete(t, r, res)

(***************************************************************************)
(* main.                                                                   *)
(***************************************************************************)
\* format!("file_{}", i)
FileIndexName(i) == <<"f", "i", "l", "e", "_">> \o Digits(i)

\* name.unwrap_or(format!("file_{}", i)), the argument of args.output.join
OutputName(name, i) == UnwrapOr(name, FileIndexName(i))

\* WriteResults of a write that refuses to replace a file (create_new)
WriteResultsCreateNew(d, n) ==
    IF n = <<>> THEN {FALSE}
    ELSE IF n \in DOMAIN d THEN {FALSE}
    ELSE BOOLEAN

\* The results fs::write(args.output.join(n), _) can have, d being the files
\* in the directory (TRUE: Ok).  Joining the empty name gives the output
\* directory itself, which cannot be written as a file; a file that is there,
\* written by this run or by an earlier one, can be written again; any other
\* write succeeds or fails as the file system decides.
WriteResults(d, n) ==
    IF n = <<>> THEN {FALSE}
    ELSE IF n \in DOMAIN d THEN {TRUE}
    ELSE BOOLEAN

\* WriteFile that leaves an existing file as it is
WriteFileKeepsExisting(d, n, data) ==
    [m \in (DOMAIN d) \cup {n} |-> IF m \in DOMAIN d THEN d[m] ELSE data]

\* the files after fs::write of data under name n: created or replaced
WriteFile(d, n, data) ==
    [m \in (DOMAIN d) \cup {n} |-> IF m = n THEN data ELSE d[m]]

\* Warn without the arm for a JoinError (line 62 missing)
WarnSkipsPanic(ws, i, out) ==
    IF out.err = "panic" THEN ws ELSE Append(ws, [task |-> i, err |-> out.err])

\* lines 61-62: warn!("{}", e) for the handle of task i, in either error arm
Warn(ws, i, out) == Append(ws, [task |-> i, err |-> out.err])

\* NextHandle of a loop that takes the handles as their tasks complete
NextHandleAsCompleted ==
    IF collected < Len(doneOrder) THEN doneOrder[collected + 1] ELSE collected + 1

\* no earlier run: the output directory is new
NoRun ==
    [ran |-> FALSE, tasks |-> <<>>, disk |-> <<>>, wlog |-> <<>>, exit |-> "running"]

\* the index of the handle the collection loop awaits next
NextHandle == collected + 1

\* the words of the orchestrator's input texts
Words ==
    { <<"h", "t", "t", "p", ":", "/", "/", "h">>,
      <<"h", "t", "t", "p", "s", ":", "/", "/", "h", "/", "a">>,
      <<"x">> }

\* the words of ws, each followed by a space
Terminated(ws) == Concat([i \in 1..Len(ws) |-> ws[i] \o <<" ">>])

\* the input texts of the orchestrator: up to MaxWords words separated by
\* spaces, with or without whitespace after the last one
InputTexts ==
    UNION {{Terminated(ws), Slice(Terminated(ws), 1, Len(Terminated(ws)) - 1)} :
              ws \in UNION {[1..k -> Words] : k \in 0..MaxWords}}

Init ==
    /\ readable \in BOOLEAN
    /\ content \in InputTexts
    /\ delay \in BOOLEAN
    /\ server = "batch"
    /\ pc = "read"
    /\ urls = <<>>
    /\ tasks = <<>>
    /\ collected = 0
    /\ dirExists = FALSE
    /\ disk = <<>>
    /\ warnings = <<>>
    /\ wlog = <<>>
    /\ doneOrder = <<>>
    /\ exit = "running"
    /\ firstRun = NoRun

\* ReadInput without the `?`: an unreadable file is taken as read
ReadInputIgnoresError ==
    /\ pc = "read"
    /\ urls' = GetUrls(content)
    /\ pc' = "spawn"
    /\ exit' = exit
    /\ UNCHANGED <<firstRun, readable, content, delay, server, tasks, collected,
                   dirExists, disk, warnings, wlog, doneOrder>>

\* line 34: get_urls(&args.url_list).await?
ReadInput ==
    /\ pc = "read"
    /\ IF readable
       THEN /\ urls' = GetUrls(content)
            /\ pc' = "spawn"
            /\ exit' = exit
       ELSE /\ urls' = urls
            /\ pc' = "exited"
            /\ exit' = "read_error"
    /\ UNCHANGED <<firstRun, readable, content, delay, server, tasks, collected,
                   dirExists, disk, warnings, wlog, doneOrder>>

\* Spawn without lines 45-47: the next pass follows at once
SpawnWithoutSleep ==
    /\ pc = "spawn"
    /\ Len(tasks) < Len(urls)
    /\ tasks' = Append(tasks, NewTask(urls[Len(tasks) + 1]))
    /\ pc' = "spawn"
    /\ UNCHANGED <<firstRun, readable, content, delay, server, urls, collected,
                   dirExists, disk, warnings, wlog, doneOrder, exit>>

\* lines 36-47: one pass of the launch loop up to the optional sleep
Spawn ==
    /\ pc = "spawn"
    /\ Len(tasks) < Len(urls)
    /\ tasks' = Append(tasks, NewTask(urls[Len(tasks) + 1]))
    /\ pc' = IF delay THEN "delay" ELSE "spawn"
    /\ UNCHANGED <<firstRun, readable, content, delay, server, urls, collected,
                   dirExists, disk, warnings, wlog, doneOrder, exit>>

\* line 46: tokio::time::sleep(Duration::from_millis(d)) returns
DelayElapsed ==
    /\ pc = "delay"
    /\ pc' = "spawn"
    /\ UNCHANGED <<firstRun, readable, content, delay, server, urls, tasks,
                   collected, dirExists, disk, warnings, wlog, doneOrder, exit>>

\* the results create_dir_all can have: Ok for a directory that exists,
\* Ok or an error for one to be made
CreateDirResults(exists) == IF exists THEN {TRUE} ELSE BOOLEAN

\* CreateDir without the `?`: a failed creation is ignored
CreateDirIgnoresError ==
    /\ pc = "spawn"
    /\ Len(tasks) = Len(urls)
    /\ \E ok \in BOOLEAN :
          /\ dirExists' = ok
          /\ pc' = "collect"
          /\ exit' = exit
    /\ UNCHANGED <<firstRun, readable, content, delay, server, urls, tasks,
                   collected, disk, warnings, wlog, doneOrder>>

\* line 50: fs::create_dir_all(&args.output).await?
CreateDir ==
    /\ pc = "spawn"
    /\ Len(tasks) = Len(urls)
    /\ \E ok \in CreateDirResults(dirExists) :
          IF ok
          THEN /\ dirExists' = TRUE
               /\ pc' = "collect"
               /\ exit' = exit
          ELSE /\ dirExists' = dirExists
               /\ pc' = "exited"
               /\ exit' = "mkdir_error"
    /\ UNCHANGED <<firstRun, readable, content, delay, server, urls, tasks,
                   collected, disk, warnings, wlog, doneOrder>>

\* Collect that gives up at the first failed task: main returns its error
CollectAbortsOnFailure ==
    /\ pc = "collect"
    /\ NextHandle <= Len(tasks)
    /\ tasks[NextHandle].phase = "done"
    /\ LET i == NextHandle
           out == tasks[i].out
           n == OutputName(out.name, i - 1)
       IN  /\ collected' = i
           /\ IF out.ok
              THEN \E ok \in WriteResults(disk, n) :
                      /\ wlog' = Append(wlog, [task |-> i, name |-> n, ok |-> ok])
                      /\ warnings' = warnings
                      /\ IF ok
                         THEN /\ disk' = WriteFile(disk, n, out.data)
                              /\ UNCHANGED <<pc, exit>>
                         ELSE /\ disk' = disk
                              /\ pc' = "exited"
                              /\ exit' = "write_error"
              ELSE /\ warnings' = Warn(warnings, i, out)
                   /\ pc' = "exited"
                   /\ exit' = "task_error"
                   /\ UNCHANGED <<wlog, disk>>
    /\ UNCHANGED <<firstRun, readable, content, delay, server, urls, tasks, dirExists, doneOrder>>

\* lines 52-64: one pass of the collection loop, for the handle awaited next
Collect ==
    /\ pc = "collect"
    /\ NextHandle <= Len(tasks)
    /\ tasks[NextHandle].phase = "done"
    /\ LET i == NextHandle
           out == tasks[i].out
           n == OutputName(out.name, i - 1)
       IN  /\ collected' = i
           /\ IF out.ok
              THEN \E ok \in WriteResults(disk, n) :
                      /\ wlog' = Append(wlog, [task |-> i, name |-> n, ok |-> ok])
                      /\ warnings' = warnings
                      /\ IF ok
                         THEN /\ disk' = WriteFile(disk, n, out.data)
                              /\ UNCHANGED <<pc, exit>>
                         ELSE /\ disk' = disk
                              /\ pc' = "exited"
                              /\ exit' = "write_error"
              ELSE /\ warnings' = Warn(warnings, i, out)
                   /\ UNCHANGED <<wlog, disk, pc, exit>>
    /\ UNCHANGED <<firstRun, readable, content, delay, server, urls, tasks, dirExists, doneOrder>>

\* Return reporting an error when a task failed
ReturnFailsOnWarnings ==
    /\ pc = "collect"
    /\ collected = Len(tasks)
    /\ pc' = "exited"
    /\ exit' = IF warnings = <<>> THEN "ok" ELSE "task_error"
    /\ UNCHANGED <<firstRun, readable, content, delay, server, urls, tasks,
                   collected, dirExists, disk, warnings, wlog, doneOrder>>

\* line 66: Ok(())
Return ==
    /\ pc = "collect"
    /\ collected = Len(tasks)
    /\ pc' = "exited"
    /\ exit' = "ok"
    /\ UNCHANGED <<firstRun, readable, content, delay, server, urls, tasks,
                   collected, dirExists, disk, warnings, wlog, doneOrder>>

\* The responses the next call of task i can meet.  A steady server answers
\* as it answered the same URL before: a call that follows a failed call of
\* the task is refused again, and in a second run over the same input the
\* task of a slot meets what the task of that slot met in the first run.
TaskResponses(i) ==
    IF server # "steady" THEN ServerResponses(server)
    ELSE IF firstRun.ran /\ firstRun.tasks[i].phase = "done"
         THEN {firstRun.tasks[i].resp}
    ELSE IF tasks[i].calls > 0 \/ (firstRun.ran /\ firstRun.tasks[i].calls > 0)
         THEN {Refusal}
    ELSE SteadyResponses

\* Attempt of a fetcher that saves the body itself when the call succeeds
AttemptWritesItself(i) ==
    /\ pc # "exited"
    /\ tasks[i].phase = "ready"
    /\ \E r \in TaskResponses(i) :
          LET t == AttemptStep(tasks[i], r)
              n == OutputName(t.out.name, i - 1)
          IN  /\ tasks' = [tasks EXCEPT ![i] = t]
              /\ doneOrder' = IF t.phase = "done" THEN Append(doneOrder, i)
                              ELSE doneOrder
              /\ IF t.phase = "done" /\ t.out.ok /\ n # <<>>
                 THEN /\ disk' = WriteFile(disk, n, t.out.data)
                      /\ wlog' = Append(wlog, [task |-> i, name |-> n, ok |-> TRUE])
                 ELSE UNCHANGED <<disk, wlog>>
    /\ UNCHANGED <<firstRun, readable, content, delay, server, pc, urls, collected,
                   dirExists, warnings, exit>>

\* Task i calls the fetcher (lines 38-43, 70-96).  Tasks run on the tokio
\* runtime, which is dropped when main returns.
Attempt(i) ==
    /\ pc # "exited"
    /\ tasks[i].phase = "ready"
    /\ \E r \in TaskResponses(i) :
          LET t == AttemptStep(tasks[i], r)
          IN  /\ tasks' = [tasks EXCEPT ![i] = t]
              /\ doneOrder' = IF t.phase = "done" THEN Append(doneOrder, i)
                              ELSE doneOrder
    /\ UNCHANGED <<firstRun, readable, content, delay, server, pc, urls, collected,
                   dirExists, disk, warnings, wlog, exit>>

\* the backoff sleep of task i ends
BackoffElapsed(i) ==
    /\ pc # "exited"
    /\ tasks[i].phase = "sleeping"
    /\ tasks' = [tasks EXCEPT ![i].phase = "ready"]
    /\ UNCHANGED <<firstRun, readable, content, delay, server, pc, urls, collected,
                   dirExists, disk, warnings, wlog, doneOrder, exit>>

Next ==
    \/ ReadInput
    \/ Spawn
    \/ DelayElapsed
    \/ CreateDir
    \/ Collect
    \/ Return
    \/ \E i \in 1..Len(tasks) : Attempt(i)
    \/ \E i \in 1..Len(tasks) : BackoffElapsed(i)

Spec == Init /\ [][Next]_vars

(***************************************************************************)
(* The orchestrator under fair scheduling: main is never suspended for     *)
(* good where it can take a step (its awaits on the file system and on the *)
(* launch delay return), and on the multi-threaded runtime every task's    *)
(* pending call or backoff sleep eventually finishes.                      *)
(***************************************************************************)
\* a step of main
MainStep == ReadInput \/ Spawn \/ DelayElapsed \/ CreateDir \/ Collect \/ Return

\* a step of the task in slot i of handles
TaskStep(i) == i \in 1..Len(tasks) /\ (Attempt(i) \/ BackoffElapsed(i))

\* the slots of handles: a text of MaxWords words holds at most MaxWords URLs
TaskSlots == 1..MaxWords

Fairness ==
    /\ WF_vars(MainStep)
    /\ \A i \in TaskSlots : WF_vars(TaskStep(i))

\* the input texts of the fair runs: no URL, one URL (without and with a
\* last path segment), two URLs
LiveTexts ==
    {Terminated(ws) :
        ws \in { <<>>,
                 << <<"x">> >>,
                 << <<"h", "t", "t", "p", ":", "/", "/", "h">> >>,
                 << <<"h", "t", "t", "p", "s", ":", "/", "/", "h", "/", "a">> >>,
                 << <<"h", "t", "t", "p", ":", "/", "/", "h">>,
                    <<"h", "t", "t", "p", "s", ":", "/", "/", "h", "/", "a">> >> }}

InitLive ==
    /\ readable \in BOOLEAN
    /\ content \in LiveTexts
    /\ delay \in BOOLEAN
    /\ server = "batch"
    /\ pc = "read"
    /\ urls = <<>>
    /\ tasks = <<>>
    /\ collected = 0
    /\ dirExists = FALSE
    /\ disk = <<>>
    /\ warnings = <<>>
    /\ wlog = <<>>
    /\ doneOrder = <<>>
    /\ exit = "running"
    /\ firstRun = NoRun

SpecLive == InitLive /\ [][Next]_vars /\ Fairness

\* process exit status for what main returned
ExitCode == IF exit = "ok" THEN 0 ELSE 1

(***************************************************************************)
(* The fetcher alone: one URL in the input, every response of the model.   *)
(***************************************************************************)
\* the URLs of the fetcher's runs: no path, the root path, a file, a
\* directory, a file in a directory
FetchUrls ==
    { <<"h", "t", "t", "p", ":", "/", "/", "h">>,
      <<"h", "t", "t", "p", ":", "/", "/", "h", "/">>,
      <<"h", "t", "t", "p", "s", ":", "/", "/", "h", "/", "a">>,
      <<"h", "t", "t", "p", ":", "/", "/", "h", "/", "a", "/">>,
      <<"h", "t", "t", "p", "s", ":", "/", "/", "h", "/", "a", "/", "b">> }

InitFetch ==
    /\ readable = TRUE
    /\ content \in {u \o <<"\n">> : u \in FetchUrls}
    /\ delay \in BOOLEAN
    /\ server = "any"
    /\ pc = "read"
    /\ urls = <<>>
    /\ tasks = <<>>
    /\ collected = 0
    /\ dirExists = FALSE
    /\ disk = <<>>
    /\ warnings = <<>>
    /\ wlog = <<>>
    /\ doneOrder = <<>>
    /\ exit = "running"
    /\ firstRun = NoRun

SpecFetch == InitFetch /\ [][Next]_vars

(***************************************************************************)
(* The extractor alone: get_urls over every text of up to MaxPieces pieces.*)
(***************************************************************************)
\* the pieces of the extractor's input texts
Pieces ==
    { <<"h", "t", "t", "p", ":", "/", "/">>,
      <<"h", "t", "t", "p", "s", ":", "/", "/", "h">>,
      <<"a">>, <<".">>, <<"?">>, <<" ">>, <<"\n">> }

\* the extractor's input texts
PieceTexts ==
    {Concat(ps) : ps \in UNION {[1..k -> Pieces] : k \in 0..MaxPieces}}

InitExtract ==
    /\ readable \in BOOLEAN
    /\ content \in PieceTexts
    /\ delay = FALSE
    /\ server = "batch"
    /\ pc = "read"
    /\ urls = <<>>
    /\ tasks = <<>>
    /\ collected = 0
    /\ dirExists = FALSE
    /\ disk = <<>>
    /\ warnings = <<>>
    /\ wlog = <<>>
    /\ doneOrder = <<>>
    /\ exit = "running"
    /\ firstRun = NoRun

NextExtract == ReadInput

SpecExtract == InitExtract /\ [][NextExtract]_vars

(***************************************************************************)
(* Two runs: the tool is run, and then run again with the same arguments   *)
(* over the same input file and the directory the first run left, against  *)
(* a steady server.                                                        *)
(***************************************************************************)
\* the input texts of the two runs: no URL, a URL without a last path
\* segment, and the same URL twice
RerunTexts ==
    {Terminated(ws) :
        ws \in { << <<"x">> >>,
                 << <<"h", "t", "t", "p", ":", "/", "/", "h">> >>,
                 << <<"h", "t", "t", "p", "s", ":", "/", "/", "h", "/", "a">>,
                    <<"h", "t", "t", "p", "s", ":", "/", "/", "h", "/", "a">> >> }}

InitRerun ==
    /\ readable \in BOOLEAN
    /\ content \in RerunTexts
    /\ delay \in BOOLEAN
    /\ server = "steady"
    /\ pc = "read"
    /\ urls = <<>>
    /\ tasks = <<>>
    /\ collected = 0
    /\ dirExists = FALSE
    /\ disk = <<>>
    /\ warnings = <<>>
    /\ wlog = <<>>
    /\ doneOrder = <<>>
    /\ exit = "running"
    /\ firstRun = NoRun

\* The process has ended and the tool is started again: main begins anew
\* (lines 29-35), the input file and the file system are as the first run
\* left them.
Rerun ==
    /\ pc = "exited"
    /\ ~firstRun.ran
    /\ firstRun' = [ran |-> TRUE, tasks |-> tasks, disk |-> disk,
                    wlog |-> wlog, exit |-> exit]
    /\ pc' = "read"
    /\ urls' = <<>>
    /\ tasks' = <<>>
    /\ collected' = 0
    /\ warnings' = <<>>
    /\ wlog' = <<>>
    /\ doneOrder' = <<>>
    /\ exit' = "running"
    /\ UNCHANGED <<readable, content, delay, server, dirExists, disk>>

NextRerun == Next \/ Rerun

SpecRerun == InitRerun /\ [][NextRerun]_vars

(***************************************************************************)
(* Vocabulary of the properties.                                           *)
(***************************************************************************)
TaskIds == 1..Len(tasks)

\* task i ended with Ok((name, data))
Succeeded(i) == tasks[i].phase = "done" /\ tasks[i].out.ok

\* task i ended with a fetch error or a JoinError
Failed(i) == tasks[i].phase = "done" /\ ~tasks[i].out.ok

\* task i ended with the fetch error of its last attempt
FetchFailed(i) == Failed(i) /\ tasks[i].out.err # "panic"

\* the warnings and the writes made for task i
WarningsFor(i) == {k \in DOMAIN warnings : warnings[k].task = i}

WritesFor(i) == {k \in DOMAIN wlog : wlog[k].task = i}

\* the collection loop was ended by a failed write
Aborted == exit = "write_error"

\* the collection loop has dealt with task i and gone on
Handled(i) == i <= collected /\ ~(Aborted /\ i = collected)

\* the name main writes task i under
DiskName(i) == OutputName(tasks[i].out.name, i - 1)

(***************************************************************************)
(* C1.  Claimed: for every task the fetcher is invoked at most 5 times in  *)
(* total (1 initial attempt and at most 4 retries), also when it fails on  *)
(* every attempt.                                                          *)
(***************************************************************************)
\* C1 as claimed: no task calls the fetcher more than 5 times.
C1_AtMostFiveCalls == \A i \in TaskIds : tasks[i].calls <= 5

\* C1 amended: no task calls the fetcher more than 6 times (1 initial attempt
\* and at most 5 retries), and a task that ends with a fetch error has called
\* it exactly 6 times.
C1_AtMostSixCalls ==
    \A i \in TaskIds :
        /\ tasks[i].calls <= 6
        /\ tasks[i].retries <= 5
        /\ FetchFailed(i) => tasks[i].calls = 6

\* C1 witness: a task whose every attempt failed has reached its terminal
\* failure.
C1_Witness ==
    \E i \in TaskIds : FetchFailed(i) /\ tasks[i].calls = 6 /\ tasks[i].retries = 5

(***************************************************************************)
(* C2.  Claimed: whatever the mix of outcomes, every success has its bytes *)
(* written and every failure (fetch error or JoinError) produces exactly   *)
(* one warning, and processing continues; k successes under distinct names *)
(* and m failures give exactly k files and m warnings.                     *)
(***************************************************************************)
\* C2 as claimed: when main has returned after creating the directory, every
\* task that succeeded has its file and every task that failed has exactly
\* one warning.  Taken on the runs in which every success resolved a
\* non-empty name, so that its refutation does not rest on the empty name of
\* C4.
C2_EveryOutcomeHandled ==
    (pc = "exited" /\ dirExists /\ \A i \in TaskIds : Succeeded(i) => DiskName(i) # <<>>) =>
        \A i \in TaskIds :
            /\ Succeeded(i) => DiskName(i) \in DOMAIN disk
            /\ Failed(i) => Cardinality(WarningsFor(i)) = 1

\* C2 amended: every failure the collection loop reaches produces exactly one
\* warning and no write, and the loop goes on; every success it reaches is
\* written once, and its file exists unless that write failed; only a failed
\* write ends the loop early, leaving the later outcomes untouched.  When no
\* write fails, m failures give m warnings and k successes under distinct
\* names give k files.
C2_HandledUntilWriteFails ==
    /\ \A i \in TaskIds :
          /\ (i <= collected /\ Failed(i)) =>
                Cardinality(WarningsFor(i)) = 1 /\ WritesFor(i) = {}
          /\ (i <= collected /\ Succeeded(i)) =>
                /\ Cardinality(WritesFor(i)) = 1
                /\ WarningsFor(i) = {}
                /\ Handled(i) =>
                      /\ \A k \in WritesFor(i) : wlog[k].ok
                      /\ DiskName(i) \in DOMAIN disk
          /\ i > collected => WarningsFor(i) = {} /\ WritesFor(i) = {}
    /\ Aborted =>
          /\ collected >= 1
          /\ Succeeded(collected)
          /\ \A k \in WritesFor(collected) : ~wlog[k].ok
    /\ (pc = "exited" /\ dirExists /\ ~Aborted) =>
          /\ exit = "ok"
          /\ collected = Len(tasks)
          /\ Len(warnings) = Cardinality({i \in TaskIds : Failed(i)})
          /\ (\A i, j \in TaskIds :
                 (Succeeded(i) /\ Succeeded(j) /\ i # j) => DiskName(i) # DiskName(j))
             => Cardinality(DOMAIN disk) = Cardinality({i \in TaskIds : Succeeded(i)})

\* C2 witness: a run that ended normally after warning about a failed first
\* task and then writing the file of the second.
C2_Witness ==
    /\ exit = "ok"
    /\ Len(tasks) = 2
    /\ Failed(1)
    /\ Succeeded(2)
    /\ Len(warnings) = 1
    /\ Cardinality(DOMAIN disk) = 1

(***************************************************************************)
(* C3.  Claimed: the process exits 0 whenever reading the input file and   *)
(* creating the output directory both succeeded, whatever happens during   *)
(* collection; it exits non-zero only if the file cannot be read or the    *)
(* directory cannot be created.                                            *)
(***************************************************************************)
\* C3 as claimed: once main has returned, with the input read and the
\* directory created, the exit status is 0.  Taken on the runs in which every
\* success resolved a non-empty name, so that its refutation does not rest on
\* the empty name of C4.
C3_ExitZeroAfterSetup ==
    (/\ pc = "exited"
     /\ readable
     /\ dirExists
     /\ \A i \in TaskIds : Succeeded(i) => DiskName(i) # <<>>) => ExitCode = 0

\* C3 amended: the process exits 0 exactly when the input file was read, the
\* directory was created and no write failed, whatever the tasks' outcomes;
\* it exits non-zero only for an unreadable input file, a failed directory
\* creation or a failed write.
C3_ExitZeroUnlessIoFails ==
    pc = "exited" =>
        /\ ExitCode = 0 <=>
              (readable /\ dirExists /\ \A k \in DOMAIN wlog : wlog[k].ok)
        /\ ExitCode # 0 => exit \in {"read_error", "mkdir_error", "write_error"}
        /\ exit = "write_error" <=> \E k \in DOMAIN wlog : ~wlog[k].ok

\* C3 witness: exit status 0 after a run in which a task failed.
C3_Witness ==
    /\ pc = "exited"
    /\ ExitCode = 0
    /\ \E i \in TaskIds : Failed(i)

(***************************************************************************)
(* C4.  Claimed: a successful task at 0-based position i is written under  *)
(* its filename hint if the hint is present and non-empty, and otherwise   *)
(* (hint absent or empty) under file_<i>.                                  *)
(***************************************************************************)
\* C4 as claimed: every write the collection loop makes for a task goes to
\* the task's hint if that is present and non-empty, and to file_<i> if not.
C4_WrittenUnderHintOrIndex ==
    \A k \in DOMAIN wlog :
        LET i == wlog[k].task
            hint == tasks[i].out.name
        IN  wlog[k].name = IF hint.some /\ hint.val # <<>> THEN hint.val
                           ELSE FileIndexName(i - 1)

(***************************************************************************)
(* C5.  Claimed: the hint is the filename="..." token of the               *)
(* Content-Disposition header when there is a non-empty one; otherwise the *)
(* last path segment of the request URL; and absent when the URL path has  *)
(* no segments (root).                                                     *)
(***************************************************************************)
\* C5 as claimed: the name a successful fetch returns follows the precedence
\* header token, last path segment, nothing for the root path.
C5_HintPrecedence ==
    \A i \in TaskIds :
        Succeeded(i) =>
            LET hdr == HeaderOf(tasks[i].resp.hdr)
                token == IF hdr.present THEN FilenameCapture(hdr.val) ELSE None
                path == UrlPath(tasks[i].url)
                segs == SplitSlash(Slice(path, 2, Len(path)))
            IN  tasks[i].out.name =
                    IF token.some /\ token.val # <<>> THEN token
                    ELSE IF path = <<"/">> THEN None
                    ELSE Some(segs[Len(segs)])

(***************************************************************************)
(* C6.  Retry stops at the first success and surfaces the last error on    *)
(* exhaustion: a success at attempt k is the task's outcome and no attempt *)
(* k+1 is made; a failed attempt is followed by another one while budget   *)
(* remains; when the budget is spent the outcome is a failure carrying the *)
(* error of the last attempt.                                              *)
(***************************************************************************)
\* the error download_image returns against a failing response r
ErrorOf(r) ==
    CASE r.kind = "neterr" -> "request"
      [] r.kind = "status" -> "status"
      [] OTHER -> "header"

\* what C6 asks of one step, for every task
C6_Step ==
    \A i \in TaskIds :
        LET t == tasks[i]
            u == tasks'[i]
        IN  /\ t.phase = "done" => u = t
            /\ (t.phase = "sleeping" /\ u # t) => u = [t EXCEPT !.phase = "ready"]
            /\ (t.phase = "ready" /\ u # t) =>
                  /\ u.calls = t.calls + 1
                  /\ u.phase \in {"done", "sleeping"}
                  /\ (u.phase = "done" /\ u.out.ok) =>
                        /\ u.resp.kind = "ok"
                        /\ u.out.data = u.resp.body
                  /\ u.phase = "sleeping" =>
                        /\ t.retries < MaxTimes
                        /\ u.retries = t.retries + 1
                  /\ (u.phase = "done" /\ ~u.out.ok /\ u.out.err # "panic") =>
                        /\ t.retries = MaxTimes
                        /\ u.resp.kind # "ok" \/ HeaderOf(u.resp.hdr) = HeaderOpaque
                        /\ u.out.err = ErrorOf(u.resp)

\* C6: a completed task never changes again; a task that slept becomes ready
\* to call the fetcher again; a call either ends the task with the success it
\* met, or, having failed, puts the task to sleep for a retry while retries
\* remain, or ends it with the error of that very call when none remain.
C6_RetrySemantics == [][C6_Step]_vars

\* C6 witness: a task that succeeded at its third attempt.
C6_Witness ==
    \E i \in TaskIds : Succeeded(i) /\ tasks[i].calls = 3 /\ tasks[i].retries = 2

(***************************************************************************)
(* C7.  Claimed: every extracted string starts with http:// or https://,   *)
(* contains no whitespace, and has a single trailing punctuation character *)
(* of . ! , ; ? ' " stripped when that character is followed by whitespace.*)
(***************************************************************************)
\* C7 as claimed: each extracted URL starts with the scheme, holds no
\* whitespace, and does not end with a punctuation character that whitespace
\* follows in the text (taken where that character is the only trailing one
\* and follows an ordinary character of the URL, so that stripping it leaves
\* a URL).
C7_ExtractedUrlsClean ==
    (readable /\ pc # "read") =>
        \A k \in DOMAIN urls :
            LET u == urls[k]
                m == CapturesFrom(content, 1)[k]
            IN  /\ SchemeEnd(u, 1) # 0
                /\ \A j \in DOMAIN u : u[j] \notin Whitespace
                /\ ~(/\ content[m.to] \in PunctClass
                     /\ content[m.to + 1] \in Whitespace
                     /\ m.to > SchemeEnd(content, m.from)
                     /\ content[m.to - 1] \notin PunctClass)

(***************************************************************************)
(* C8.  Exactly one task is launched per URL occurrence in the input text, *)
(* duplicates included, in the order of the text; a text without URL       *)
(* launches no task and is not an error.                                   *)
(***************************************************************************)
\* The places of text t where a URL occurrence starts: the scheme followed by
\* at least one character of a whitespace-terminated run, and no earlier
\* scheme in the same run.
OccurrenceStarts(t) ==
    {s \in 1..Len(t) :
        LET p == SchemeEnd(t, s)
        IN  /\ p # 0
            /\ \E e \in p..(Len(t) - 1) :
                  /\ t[e + 1] \in Whitespace
                  /\ \A j \in p..e : t[j] \notin Whitespace
            /\ ~\E r \in 1..(s - 1) :
                  /\ SchemeEnd(t, r) # 0
                  /\ \A j \in r..s : t[j] \notin Whitespace}

\* the occurrence starting at s: up to the whitespace that ends its run
OccurrenceAt(t, s) ==
    Slice(t, s, CHOOSE e \in s..(Len(t) - 1) :
                    /\ t[e + 1] \in Whitespace
                    /\ \A j \in s..e : t[j] \notin Whitespace)

\* the URL occurrences of t, in the order of the text
Occurrences(t) ==
    LET S == OccurrenceStarts(t)
        nth(k) == CHOOSE s \in S : Cardinality({r \in S : r < s}) = k - 1
    IN  [k \in 1..Cardinality(S) |-> OccurrenceAt(t, nth(k))]

\* C8: once the file is read, the URL list is the list of the text's
\* occurrences; the tasks launched so far are, in order, the tasks of its
\* first URLs; all are launched when the launch loop is over; and a text
\* without URL gives no task and no error of its own.
C8_OneTaskPerOccurrence ==
    (readable /\ pc # "read") =>
        /\ urls = Occurrences(content)
        /\ Len(tasks) <= Len(urls)
        /\ \A i \in TaskIds : tasks[i].url = urls[i]
        /\ pc \in {"collect", "exited"} => Len(tasks) = Len(urls)
        /\ Occurrences(content) = <<>> =>
              /\ tasks = <<>>
              /\ exit \in {"running", "ok", "mkdir_error"}
              /\ (pc = "exited" /\ dirExists) => exit = "ok"

\* C8 witness: a text naming the same URL twice has launched two tasks for it.
C8_Witness ==
    /\ pc = "collect"
    /\ Len(tasks) = 2
    /\ tasks[1].url = tasks[2].url

(***************************************************************************)
(* C9.  If the input file cannot be read, the run aborts with a non-zero   *)
(* exit before any download: no task, no fetch, no directory, no file.     *)
(***************************************************************************)
\* C9: past the read of an unreadable file, main has returned an error and
\* nothing else has happened.
C9_UnreadableInputAborts ==
    (~readable /\ pc # "read") =>
        /\ pc = "exited"
        /\ exit = "read_error"
        /\ ExitCode # 0
        /\ urls = <<>>
        /\ tasks = <<>>
        /\ ~dirExists
        /\ DOMAIN disk = {}
        /\ wlog = <<>>
        /\ warnings = <<>>

\* C9 witness: the run has ended on an unreadable file that holds URLs.
C9_Witness ==
    /\ ~readable
    /\ pc = "exited"
    /\ GetUrls(content) # <<>>

(***************************************************************************)
(* C10.  A filename collision is never an error: when two successful tasks *)
(* i < j resolve to the same name, both writes succeed and the file holds  *)
(* the bytes of task j, whichever of the two completed first.              *)
(***************************************************************************)
\* C10: a write to a name written earlier in the run succeeds; and of the
\* successful tasks the collection loop has dealt with under one name, all
\* were written and the file holds the bytes of the one launched last.
C10_LaterCollidingWriteWins ==
    /\ \A k \in DOMAIN wlog :
          (\E k2 \in 1..(k - 1) : wlog[k2].name = wlog[k].name) => wlog[k].ok
    /\ \A i, j \in TaskIds :
          (/\ i < j
           /\ Handled(i) /\ Succeeded(i)
           /\ Handled(j) /\ Succeeded(j)
           /\ DiskName(i) = DiskName(j)
           /\ ~\E m \in TaskIds :
                 m > j /\ Handled(m) /\ Succeeded(m) /\ DiskName(m) = DiskName(j))
          => /\ \A k \in WritesFor(i) \cup WritesFor(j) : wlog[k].ok
             /\ WritesFor(i) # {} /\ WritesFor(j) # {}
             /\ DiskName(j) \in DOMAIN disk
             /\ disk[DiskName(j)] = tasks[j].out.data

\* C10 witness: two tasks met different bodies under one name, the second
\* completed before the first, and both have been written.
C10_Witness ==
    /\ Len(tasks) = 2
    /\ collected = 2
    /\ ~Aborted
    /\ Succeeded(1) /\ Succeeded(2)
    /\ DiskName(1) = DiskName(2)
    /\ tasks[1].out.data # tasks[2].out.data
    /\ doneOrder = <<2, 1>>
    /\ disk[DiskName(2)] = tasks[2].out.data

(***************************************************************************)
(* C18.  A URL is extracted only when the run of non-whitespace characters *)
(* that forms it is followed by a whitespace character: a URL that ends    *)
(* the text produces no task, and an input holding a single URL and no     *)
(* final newline launches no download and still exits 0.                   *)
(***************************************************************************)
\* the whitespace characters of the input text
WhitespaceAt == {p \in DOMAIN content : content[p] \in Whitespace}

\* the text u stands in the input right before a whitespace character
FollowedByWhitespace(u) ==
    \E s \in DOMAIN content :
        /\ LitAt(content, s, u)
        /\ s + Len(u) \in WhitespaceAt

\* C18: every URL extracted, and every task's URL, stands in the text right
\* before a whitespace character, and there are no more of them than
\* whitespace characters; on a text without any whitespace no task is ever
\* launched, nothing is written or warned about, and main, once the file is
\* read and the directory created, returns Ok.
C18_UrlNeedsTrailingWhitespace ==
    /\ \A k \in DOMAIN urls : FollowedByWhitespace(urls[k])
    /\ \A i \in TaskIds : FollowedByWhitespace(tasks[i].url)
    /\ Len(urls) <= Cardinality(WhitespaceAt)
    /\ WhitespaceAt = {} =>
          /\ urls = <<>> /\ tasks = <<>>
          /\ wlog = <<>> /\ warnings = <<>>
          /\ exit \in {"running", "ok", "read_error", "mkdir_error"}
          /\ (pc = "exited" /\ readable /\ dirExists) => ExitCode = 0

\* C18 witness: the input is a single URL with nothing after it, and main
\* has returned Ok without a task.
C18_Witness ==
    /\ readable
    /\ content = <<"h", "t", "t", "p", ":", "/", "/", "h">>
    /\ pc = "exited"
    /\ tasks = <<>>
    /\ dirExists
    /\ ExitCode = 0

(***************************************************************************)
(* C19.  Filename resolution can fail a fetch attempt: a 2xx response      *)
(* whose Content-Disposition value cannot be read as text makes the        *)
(* attempt fail, to be retried like any other failure, instead of falling  *)
(* back to the URL's last path segment; if the server keeps sending such a *)
(* header the task ends as a failure and no file is written for it.        *)
(***************************************************************************)
\* the 2xx responses whose Content-Disposition value to_str rejects
OpaqueResponses == {r \in Responses : r.kind = "ok" /\ HeaderOf(r.hdr) = HeaderOpaque}

\* C19: a call that meets such a response never completes the task with
\* Ok: with retries left the task goes to sleep for another call, with none
\* left it ends with the header error; and a task whose last call met such
\* a response has failed after all its calls, has no write, leaves no file,
\* and is warned about once when collected.
C19_UnreadableHeaderFailsAttempt ==
    \A i \in TaskIds :
        /\ tasks[i].phase = "ready" =>
              \A r \in OpaqueResponses :
                  LET t == AttemptStep(tasks[i], r)
                  IN  /\ ~t.out.ok
                      /\ t.calls = tasks[i].calls + 1
                      /\ IF tasks[i].retries < MaxTimes
                         THEN t.phase = "sleeping" /\ t.retries = tasks[i].retries + 1
                         ELSE t.phase = "done" /\ t.out = Err("header")
        /\ (tasks[i].phase = "done" /\ tasks[i].resp \in OpaqueResponses) =>
              /\ tasks[i].out = Err("header")
              /\ tasks[i].calls = MaxTimes + 1
              /\ WritesFor(i) = {}
              /\ Len(tasks) = 1 => DOMAIN disk = {}
              /\ Handled(i) =>
                    /\ Cardinality(WarningsFor(i)) = 1
                    /\ \A k \in WarningsFor(i) : warnings[k].err = "header"

\* C19 witness: the task's last call met an unreadable header on a URL with
\* a last path segment, and main has returned after warning about it.
C19_Witness ==
    /\ Len(tasks) = 1
    /\ GetFileNameFromUrl(tasks[1].url) = Some(<<"a">>)
    /\ tasks[1].phase = "done"
    /\ tasks[1].resp \in OpaqueResponses
    /\ collected = 1
    /\ warnings = <<[task |-> 1, err |-> "header"]>>
    /\ pc = "exited"
    /\ DOMAIN disk = {}

(***************************************************************************)
(* C13.  Outcomes are collected strictly in launch order, independent of   *)
(* completion order: the outcome of task i is processed (file written or   *)
(* warning logged) only after those of all tasks before it, so the writes  *)
(* and warnings are ordered by task index even when a later-launched task  *)
(* completes first.                                                        *)
(***************************************************************************)
\* the outcome of task i has been processed: a write attempted or a warning
\* logged for it
Processed(i) == WritesFor(i) # {} \/ WarningsFor(i) # {}

\* C13: at every moment the tasks processed are exactly the first
\* `collected` tasks launched, each processed once, all of them complete;
\* and the writes and the warnings are each in increasing task order.
C13_CollectedInLaunchOrder ==
    /\ {i \in TaskIds : Processed(i)} = 1..collected
    /\ Len(wlog) + Len(warnings) = collected
    /\ \A i \in 1..collected : tasks[i].phase = "done"
    /\ \A i \in TaskIds : Processed(i) => \A j \in 1..(i - 1) : Processed(j)
    /\ \A k, m \in DOMAIN wlog : k < m => wlog[k].task < wlog[m].task
    /\ \A k, m \in DOMAIN warnings : k < m => warnings[k].task < warnings[m].task

\* C13 witness: the second task completed first, a failure, and the first
\* one later, a success; the write for the first and then the warning for
\* the second were both made.
C13_Witness ==
    /\ doneOrder = <<2, 1>>
    /\ collected = 2
    /\ Succeeded(1) /\ Failed(2)
    /\ Len(wlog) = 1 /\ wlog[1].task = 1 /\ wlog[1].ok
    /\ Len(warnings) = 1 /\ warnings[1].task = 2

(***************************************************************************)
(* C14.  Output-directory creation is attempted after every task has been  *)
(* launched and before any outcome is collected; no file write happens     *)
(* before the creation has succeeded, and if it fails the run ends with a  *)
(* non-zero exit having written no file and logged no per-task warning,    *)
(* although the tasks were already launched.                               *)
(***************************************************************************)
\* the launch loop has run to its end: the input was read and one task has
\* been launched for every URL extracted from it
AllLaunched == readable /\ pc # "read" /\ Len(tasks) = Len(urls)

\* the collection loop has done nothing
NothingCollected ==
    /\ collected = 0
    /\ wlog = <<>>
    /\ warnings = <<>>
    /\ DOMAIN disk = {}

\* C14: the directory exists, or its creation has failed, only when every
\* task has been launched; the collection loop runs, and anything is
\* collected, written or warned about, only when the directory exists; and
\* a failed creation has ended main with a non-zero exit and nothing
\* collected.
C14_DirCreatedBetweenLaunchAndCollect ==
    /\ (dirExists \/ exit = "mkdir_error") => AllLaunched
    /\ (pc = "collect" \/ ~NothingCollected) => dirExists
    /\ exit = "mkdir_error" =>
          /\ pc = "exited"
          /\ ExitCode # 0
          /\ ~dirExists
          /\ NothingCollected

\* C14 witness: the creation failed with two tasks launched, one of them
\* already complete with a success.
C14_Witness ==
    /\ exit = "mkdir_error"
    /\ Len(tasks) = 2
    /\ \E i \in TaskIds : Succeeded(i)
    /\ NothingCollected

(***************************************************************************)
(* C15.  All disk writes are performed by the orchestrator's collection    *)
(* loop, one at a time: a task never writes to disk itself, and at no      *)
(* moment are two writes in progress, for any number of concurrently       *)
(* running tasks.                                                          *)
(***************************************************************************)
\* a step that writes: it calls fs::write or changes the files
C15_Writes == wlog' # wlog \/ disk' # disk

\* a step that writes is a pass of the collection loop of main, for the
\* handle it awaits: it is no step of a task, it makes one fs::write call,
\* for that handle's task, and changes no file but the one it names
C15_Step ==
    C15_Writes =>
        /\ pc = "collect"
        /\ tasks' = tasks /\ doneOrder' = doneOrder
        /\ collected' = collected + 1
        /\ Len(wlog') = Len(wlog) + 1
        /\ SubSeq(wlog', 1, Len(wlog)) = wlog
        /\ wlog'[Len(wlog')].task = collected'
        /\ \A n \in (DOMAIN disk) \cup (DOMAIN disk') :
              n # wlog'[Len(wlog')].name =>
                  n \in DOMAIN disk /\ n \in DOMAIN disk' /\ disk'[n] = disk[n]

\* C15: every step that writes is such a step.
C15_SingleWriter == [][C15_Step]_vars

\* C15 witness: a file has been written for the first task while the second
\* task, launched before the write, is still running.
C15_Witness ==
    /\ Len(tasks) = 2
    /\ collected = 1
    /\ Len(wlog) = 1 /\ wlog[1].task = 1 /\ wlog[1].ok
    /\ DOMAIN disk # {}
    /\ tasks[2].phase # "done" /\ tasks[2].calls > 0
    /\ pc = "collect"

(***************************************************************************)
(* C16.  A configured delay throttles only the launch rate: task i+1 is    *)
(* not launched until the delay following the launch of task i has         *)
(* elapsed, while every task launched before can keep making progress      *)
(* during the pause; with no delay configured all tasks are launched       *)
(* without a pause between them, and no cap limits how many tasks are in   *)
(* flight at once.                                                         *)
(***************************************************************************)
\* a step that launches a task
C16_Launches == Len(tasks') > Len(tasks)

\* a launch happens in the launch loop and is followed by the pause exactly
\* when a delay is configured; and while main pauses, no task is launched
\* and main moves on only by the end of the pause
C16_Step ==
    /\ C16_Launches =>
          /\ pc = "spawn"
          /\ Len(tasks') = Len(tasks) + 1
          /\ pc' = IF delay THEN "delay" ELSE "spawn"
    /\ pc = "delay" =>
          /\ ~C16_Launches
          /\ pc' \in {"delay", "spawn"}
          /\ pc' = "spawn" => tasks' = tasks

\* every task launched and not complete can take its next step, whatever
\* main is doing short of having returned: the pause holds none back
C16_TasksNotHeld ==
    pc # "exited" =>
        \A i \in TaskIds :
            /\ tasks[i].phase = "ready" => ENABLED Attempt(i)
            /\ tasks[i].phase = "sleeping" => ENABLED BackoffElapsed(i)

\* the launch loop, when not pausing, launches the next task whatever the
\* number and the state of the tasks in flight
C16_NoCap ==
    (pc = "spawn" /\ Len(tasks) < Len(urls)) => ENABLED Spawn

\* C16: main pauses only when a delay is configured; tasks are not held back
\* and launches are not capped; and every step launches and pauses as above.
C16_DelayThrottlesLaunchOnly ==
    /\ [](pc = "delay" => delay)
    /\ []C16_TasksNotHeld
    /\ []C16_NoCap
    /\ [][C16_Step]_vars

\* C16 witness: main is in the pause after the launch of the second task,
\* the first task has meanwhile made all its calls and completed, and the
\* second has made a call and is backing off.
C16_Witness ==
    /\ delay
    /\ pc = "delay"
    /\ Len(tasks) = 2
    /\ tasks[1].phase = "done" /\ tasks[1].calls = MaxTimes + 1
    /\ tasks[2].phase = "sleeping"

(***************************************************************************)
(* C12.  Claimed: once launched, every task runs to a terminal outcome and *)
(* produces exactly one outcome, whatever happens to other tasks or to the *)
(* orchestrator's later phases: no task is cancelled or abandoned before   *)
(* its outcome exists, including when the output directory cannot be       *)
(* created or when another task has failed.                                *)
(***************************************************************************)
\* task i was launched and has no outcome
Unfinished(i) == tasks[i].phase # "done"

\* C12 as claimed: main never returns, and with it the runtime never shuts
\* down, while a launched task has no outcome.
C12_NoTaskAbandoned ==
    pc = "exited" => \A i \in TaskIds : ~Unfinished(i)

\* an outcome, once produced, is the task's outcome for good, and no task
\* is ever taken off the list
C12_Step ==
    /\ Len(tasks') >= Len(tasks)
    /\ \A i \in TaskIds : ~Unfinished(i) => tasks'[i] = tasks[i]

\* while main runs, every task without an outcome can take its next step,
\* whatever became of the other tasks; a task has an outcome exactly when it
\* is complete; and main returns with a task unfinished only on the early
\* returns of a failed directory creation or a failed write
C12_Inv ==
    /\ \A i \in TaskIds :
          /\ Unfinished(i) <=> tasks[i].out = Pending
          /\ (Unfinished(i) /\ pc # "exited") =>
                ENABLED Attempt(i) \/ ENABLED BackoffElapsed(i)
    /\ (pc = "exited" /\ \E i \in TaskIds : Unfinished(i)) =>
          exit \in {"mkdir_error", "write_error"}

\* C12 amended: no task is cancelled by what happens to another task, and a
\* task's outcome is produced once; a task is left without an outcome only
\* when main returns early, on a failed directory creation or a failed
\* write.
C12_AbandonedOnlyOnEarlyReturn == []C12_Inv /\ [][C12_Step]_vars

\* C12 witness: one task has failed after all its calls, and the other is
\* still backing off when main returns because the directory could not be
\* created.
C12_Witness ==
    /\ Len(tasks) = 2
    /\ pc = "exited"
    /\ exit = "mkdir_error"
    /\ FetchFailed(1)
    /\ tasks[2].phase = "sleeping"

(***************************************************************************)
(* C17.  Claimed: the run always terminates: assuming every fetch attempt  *)
(* and every backoff or launch delay eventually finishes, every task       *)
(* eventually reaches a terminal outcome, every outcome is eventually      *)
(* consumed by the collection loop, and the process eventually exits.      *)
(***************************************************************************)
\* every URL of the input has its task, every task its outcome, and every
\* outcome has been consumed by the collection loop
AllConsumed ==
    /\ Len(tasks) = Len(urls)
    /\ \A i \in TaskIds : tasks[i].phase = "done"
    /\ collected = Len(tasks)

\* C17 as claimed: eventually the process has exited with every task at a
\* terminal outcome and every outcome consumed.
C17_TerminatesWithAllConsumed == <>(pc = "exited" /\ AllConsumed)

\* C17 amended: the process eventually exits; when main returns Ok, every
\* task has reached its outcome and every outcome has been consumed, and
\* otherwise main returned early on an unreadable input, a failed directory
\* creation or a failed write.
C17_Terminates ==
    <>(/\ pc = "exited"
       /\ IF exit = "ok" THEN AllConsumed
          ELSE exit \in {"read_error", "mkdir_error", "write_error"})

\* C17 witness: main has returned Ok after two tasks, one of which used up
\* all its calls and the other of which succeeded, were both consumed.
C17_Witness ==
    /\ pc = "exited"
    /\ exit = "ok"
    /\ Len(tasks) = 2
    /\ AllConsumed
    /\ \E i \in TaskIds : tasks[i].calls = MaxTimes + 1
    /\ \E i \in TaskIds : Succeeded(i)

(***************************************************************************)
(* C11.  Writes are idempotent across runs: running the tool a second time *)
(* with the same input, the same server responses and the same output      *)
(* directory overwrites the same-named files without error and leaves the  *)
(* output directory with the same set of files and contents as after the   *)
(* first run.                                                              *)
(***************************************************************************)
\* the second run is under way or over
SecondRun == firstRun.ran

\* C11: in the second run the tasks end as they ended in the first; every
\* write to a name the first run left in the directory succeeds; after a
\* first run that returned Ok the second run meets no error, holds at every
\* moment the files of the first run by name, and ends with Ok having made
\* the same writes and with the same files and contents; and whenever the
\* second run has made the same write calls with the same results as the
\* first, it leaves the same files and contents.
C11_SecondRunLeavesSameFiles ==
    SecondRun =>
        /\ \A i \in TaskIds :
              (tasks[i].phase = "done" /\ firstRun.tasks[i].phase = "done") =>
                  tasks[i].out = firstRun.tasks[i].out
        /\ \A k \in DOMAIN wlog :
              wlog[k].name \in DOMAIN firstRun.disk => wlog[k].ok
        /\ firstRun.exit = "ok" =>
              /\ exit \in {"running", "ok"}
              /\ DOMAIN disk = DOMAIN firstRun.disk
              /\ \A k \in DOMAIN wlog : wlog[k] = firstRun.wlog[k]
              /\ pc = "exited" =>
                    /\ exit = "ok"
                    /\ wlog = firstRun.wlog
                    /\ disk = firstRun.disk
        /\ (pc = "exited" /\ wlog = firstRun.wlog) => disk = firstRun.disk

\* C11 witness: both runs returned Ok; each wrote the bodies of the two
\* tasks, which differ, under one name, and the second run has gone through
\* the file holding the other body before it ended with the first run's.
C11_Witness ==
    /\ SecondRun
    /\ firstRun.exit = "ok"
    /\ pc = "exited" /\ exit = "ok"
    /\ Len(wlog) = 2
    /\ wlog[1].name = wlog[2].name
    /\ Succeeded(1) /\ Succeeded(2)
    /\ tasks[1].out.data # tasks[2].out.data
    /\ disk = firstRun.disk
    /\ disk[wlog[2].name] = tasks[2].out.data

====
